---- MODULE Spec2Model ----
(***************************************************************************)
(* A model of main.py: the TCP listener (start_server), the per-connection *)
(* handler (handle_client_connection) and the three operations of          *)
(* EmailAutomation (send_email, fetch_recent_emails,                       *)
(* get_recipe_ingredients).                                                *)
(*                                                                         *)
(* Python values are tagged records; a Python str or bytes is a sequence   *)
(* of chunks (TLA+ strings) so that concatenation and join are \o.  JSON   *)
(* text on the wire is a sequence of tokens produced by json_dumps.        *)
(***************************************************************************)
EXTENDS Integers, Sequences, FiniteSets, TLC

\* ------------------------------------------------------------------ bounds
\* Connections the clients make in the server specification.
NumConns == 2
\* Longest ingredient list the recipe API answers with.
MaxIngredients == 2
\* Highest message sequence number in the inbox.
MaxMsgs == 6

\* ------------------------------------------------- program constants
\* conn.recv(1024)
RecvSize == 1024
\* fetch_recent_emails(self, search_criteria='UNSEEN', limit=5)
DefaultLimit == 5

Conns == 1..NumConns

Min(a, b) == IF a < b THEN a ELSE b
Max(a, b) == IF a < b THEN b ELSE a

\* ------------------------------------------------------- Python values
Str(s) == [t |-> "str", s |-> <<s>>]
StrOf(chunks) == [t |-> "str", s |-> chunks]
Bytes(s) == [t |-> "bytes", s |-> <<s>>]
Bool(b) == [t |-> "bool", b |-> b]
None == [t |-> "none"]
List(items) == [t |-> "list", items |-> items]
\* A dict keeps insertion order: a sequence of key/value entries.
Dict(entries) == [t |-> "dict", entries |-> entries]
KV(k, v) == [k |-> k, v |-> v]

\* a == b on Python values of the kinds a request holds (str, None).
PyEq(a, b) == a.t = b.t /\ (a.t = "str" => a.s = b.s)

\* f"{v}": the text of a value inside an f-string.
Format(v) == IF v.t = "none" THEN <<"None">> ELSE v.s

\* sep.join(items): items are chunk sequences.
RECURSIVE JoinChunks(_, _)
JoinChunks(items, sep) ==
  IF items = <<>> THEN <<>>
  ELSE IF Len(items) = 1 THEN items[1]
  ELSE items[1] \o <<sep>> \o JoinChunks(Tail(items), sep)

\* The join with ", " for a separator.
JoinComma(ingredients) == JoinChunks([i \in 1..Len(ingredients) |-> <<ingredients[i]>>], ", ")

\* '\n'.join(ingredients)
JoinNewline(ingredients) == JoinChunks([i \in 1..Len(ingredients) |-> <<ingredients[i]>>], "\n")

\* seq[start:] with Python's rule for a negative or zero start.
PySliceFrom(seq, start) ==
  LET n == Len(seq)
      s == IF start < 0 THEN Max(n + start, 0) ELSE Min(start, n)
  IN SubSeq(seq, s + 1, n)

\* ------------------------------------------------------------ json.dumps
Ok(text) == [ok |-> TRUE, text |-> text, err |-> <<>>]
Raise(err) == [ok |-> FALSE, text |-> <<>>, err |-> <<err>>]

\* The JSON escape of a string's chunks: a newline is written \n.
EscapeChunks(chunks) == [i \in 1..Len(chunks) |-> IF chunks[i] = "\n" THEN "\\n" ELSE chunks[i]]

BytesNotSerializable == "Object of type bytes is not JSON serializable"

RECURSIVE ConcatAll(_, _)
ConcatAll(texts, sep) ==
  IF texts = <<>> THEN <<>>
  ELSE IF Len(texts) = 1 THEN texts[1]
  ELSE texts[1] \o <<sep>> \o ConcatAll(Tail(texts), sep)

\* json.dumps(v) with the default separators ", " and ": ": the text as tokens, or
\* the TypeError the encoder raises on a value that has no JSON form.
RECURSIVE json_dumps(_)
json_dumps(v) ==
  CASE v.t = "str" -> Ok(<<"\"">> \o EscapeChunks(v.s) \o <<"\"">>)
    [] v.t = "bool" -> Ok(<<IF v.b THEN "true" ELSE "false">>)
    [] v.t = "none" -> Ok(<<"null">>)
    [] v.t = "bytes" -> Raise(BytesNotSerializable)
    [] v.t = "list" ->
         LET parts == [i \in 1..Len(v.items) |-> json_dumps(v.items[i])]
         IN IF \E i \in 1..Len(parts) : ~parts[i].ok
            THEN Raise(BytesNotSerializable)
            ELSE Ok(<<"[">> \o ConcatAll([i \in 1..Len(parts) |-> parts[i].text], ", ") \o <<"]">>)
    [] v.t = "dict" ->
         LET parts == [i \in 1..Len(v.entries) |-> json_dumps(v.entries[i].v)]
         IN IF \E i \in 1..Len(parts) : ~parts[i].ok
            THEN Raise(BytesNotSerializable)
            ELSE Ok(<<"{">> \o ConcatAll([i \in 1..Len(parts) |->
                        <<"\"", v.entries[i].k, "\"", ": ">> \o parts[i].text], ", ") \o <<"}">>)

\* ------------------------------------------------------------ json.loads
\* What the client sends: a JSON document of docLen bytes denoting `value`
\* (form "json"), bytes that are no JSON ("garbage") or no UTF-8 ("badutf8"),
\* followed by padLen bytes of trailing whitespace.
Payload(form, value, docLen, padLen) ==
  [form |-> form, value |-> value, docLen |-> docLen, padLen |-> padLen]

TotalLen(payload) == payload.docLen + payload.padLen

NoPayload == Payload("none", None, 0, 0)
\* The bytes one recv returned: the first n bytes of the payload.
Data(payload, n) == [payload |-> payload, n |-> n]
NoData == Data(NoPayload, 0)

LoadsOk(value) == [ok |-> TRUE, value |-> value, err |-> <<>>]
LoadsRaise(err) == [ok |-> FALSE, value |-> None, err |-> <<err>>]

\* A parse of the whole payload, whatever part of it was read.
json_loads_whole(data) ==
  IF data.payload.form = "json" THEN LoadsOk(data.payload.value)
  ELSE LoadsRaise("Expecting value: line 1 column 1 (char 0)")

\* json.loads(data.decode('utf-8')).  A document is a JSON object or array, closed
\* by its last byte, so it parses only when all of it was read; trailing
\* whitespace, whole or cut, is accepted.
json_loads(data) ==
  IF data.payload.form = "badutf8"
    THEN LoadsRaise("'utf-8' codec can't decode byte 0xff in position 0: invalid start byte")
  ELSE IF data.payload.form = "garbage"
    THEN LoadsRaise("Expecting value: line 1 column 1 (char 0)")
  ELSE IF data.n < data.payload.docLen
    THEN LoadsRaise("Unterminated string starting at: line 1 column 9 (char 8)")
  ELSE LoadsOk(data.payload.value)

HasKey(d, key) == \E i \in 1..Len(d.entries) : d.entries[i].k = key
\* request_data.get(key, default) on a parsed dict
DictGet(d, key, default) ==
  IF HasKey(d, key)
  THEN d.entries[CHOOSE i \in 1..Len(d.entries) : d.entries[i].k = key].v
  ELSE default

\* ------------------------------------------------ get_recipe_ingredients
\* What the recipe API does on one GET: fails, or answers with `results`.
ApiError == [kind |-> "error", results |-> <<>>]
ApiResults(results) == [kind |-> "ok", results |-> results]
Recipe(originals) == [extendedIngredients |-> originals]

get_recipe_ingredients(food_type, api_key, api) ==
  IF api.kind = "error" THEN <<>>
  ELSE IF api.results # <<>> THEN api.results[1].extendedIngredients
  ELSE <<>>

\* -------------------------------------------------------------- send_email
SendResult(success, message, session) ==
  [success |-> success, message |-> message, session |-> session]

\* send_email(recipient_email, subject, body) against a server that fails at step
\* `fail` ("none": never).  session: "none" (never opened), "open" (opened and not
\* quit) or "closed" (quit).
send_email(recipient_email, subject, body, fail) ==
  IF fail = "connect"
    THEN SendResult(FALSE, <<"[Errno 111] Connection refused">>, "none")
  ELSE IF fail = "starttls"
    THEN SendResult(FALSE, <<"STARTTLS extension not supported by server.">>, "open")
  ELSE IF fail = "login"
    THEN SendResult(FALSE, <<"(535, b'5.7.8 Username and Password not accepted.')">>, "open")
  ELSE IF recipient_email.t = "none"
    THEN SendResult(FALSE, <<"'NoneType' object is not iterable">>, "open")
  ELSE IF fail = "sendmail"
    THEN SendResult(FALSE, <<"Connection unexpectedly closed">>, "open")
  ELSE SendResult(TRUE, <<"Email sent successfully">>, "closed")

\* ----------------------------------------------------- fetch_recent_emails
\* The inbox holds messages 1..MaxMsgs; `unseen` are the unread ones; the session
\* fails at step `fail`, and fetching or decoding message `bad` (0: none) fails.
Imap(unseen, fail, bad) == [unseen |-> unseen, fail |-> fail, bad |-> bad]

RECURSIVE Ascending(_)
Ascending(S) ==
  IF S = {} THEN <<>>
  ELSE LET m == CHOOSE x \in S : \A y \in S : x <= y
       IN <<m>> \o Ascending(S \ {m})

\* mail.search(None, search_criteria)[1][0].split(): message numbers, ascending.
Search(imap, search_criteria) ==
  Ascending(IF search_criteria = "UNSEEN" THEN imap.unseen ELSE 1..MaxMsgs)

\* The record appended for message email_id.
EmailSummary(email_id) ==
  Dict(<<KV("id", Bytes(ToString(email_id))),
         KV("subject", StrOf(<<"Subject ", ToString(email_id)>>)),
         KV("sender", Str("sender@example.com")),
         KV("body", StrOf(<<"Body ", ToString(email_id)>>))>>)

FetchResult(emails, session) == [emails |-> emails, session |-> session]

fetch_recent_emails(search_criteria, limit, imap) ==
  IF imap.fail = "connect" THEN FetchResult(<<>>, "none")
  ELSE IF imap.fail \in {"login", "select", "search"} THEN FetchResult(<<>>, "open")
  ELSE LET email_ids == Search(imap, search_criteria)
           selected == PySliceFrom(email_ids, -limit)
       IN IF \E i \in 1..Len(selected) : selected[i] = imap.bad
          THEN FetchResult(<<>>, "open")
          ELSE FetchResult([i \in 1..Len(selected) |-> EmailSummary(selected[i])], "closed")

\* ------------------------------------------------ handle_client_connection
VARIABLES
  pending,      \* connections waiting in the listener's queue
  pc,           \* per connection: where its handler thread is
  hung,         \* per connection: the handler is blocked forever in a call
  data,         \* per connection: what conn.recv returned
  request,      \* per connection: request_type, food_type, recipient_email
  ingredients,  \* per connection: what get_recipe_ingredients returned
  response,     \* per connection: the response dict
  exc,          \* per connection: str(e) of the exception caught
  io,           \* per connection: the calls made on conn, in order
  calls,        \* per connection: the external operations invoked, in order
  sessions,     \* per connection: the mail sessions opened, each "open" or "closed"
  uncaught,     \* per connection: an exception left the handler
  arg,          \* fetch_recent_emails called on its own: its arguments
  ret           \* fetch_recent_emails called on its own: its result

vars == <<pending, pc, hung, data, request, ingredients, response, exc, io, calls,
          sessions, uncaught, arg, ret>>

Event(ev, payload) == [ev |-> ev, payload |-> payload]

\* request_data.get('type', 'recipe')
RequestType(request_data) == DictGet(request_data, "type", Str("recipe"))

\* The branch with its else taken for a fetch.
RouteUnknownAsFetch(request_type) ==
  IF PyEq(request_type, Str("recipe")) THEN "lookup" ELSE "fetch"

\* The if / elif / else on request_type.
Route(request_type) ==
  IF PyEq(request_type, Str("recipe")) THEN "lookup"
  ELSE IF PyEq(request_type, Str("fetch_emails")) THEN "fetch"
  ELSE "respond"

InvalidResponse ==
  Dict(<<KV("success", Bool(FALSE)), KV("message", Str("Invalid request type"))>>)

NotFoundResponse ==
  Dict(<<KV("success", Bool(FALSE)), KV("message", Str("No ingredients found")),
         KV("ingredients", List(<<>>))>>)

IngredientsValue(ings) == List([i \in 1..Len(ings) |-> Str(ings[i])])

RecipeResponse(success, message, ings) ==
  Dict(<<KV("success", Bool(success)), KV("message", StrOf(message)),
         KV("ingredients", IngredientsValue(ings))>>)

FetchResponse(emails) ==
  Dict(<<KV("success", Bool(TRUE)), KV("emails", List(emails))>>)

ErrorResponse(e) ==
  Dict(<<KV("success", Bool(FALSE)), KV("message", StrOf(e))>>)

\* f"Ingredients for {food_type} Recipe"
EmailSubject(food_type) == <<"Ingredients for ">> \o Format(food_type) \o <<" Recipe">>

\* f"Here are the ingredients for your {food_type} recipe:\n\n{ingredients_list}"
EmailBody(food_type, ings) ==
  <<"Here are the ingredients for your ">> \o Format(food_type)
    \o <<" recipe:", "\n", "\n">> \o JoinNewline(ings)

NoRequest == [request_type |-> None, food_type |-> None, recipient_email |-> None]

\* From the bytes read to the branch taken: json.loads, the reads of the request's
\* fields, and the response of the else branch.
Dispatch(d) ==
  LET parsed == json_loads(d)
      request_data == parsed.value
  IN IF ~parsed.ok
       THEN [pc |-> "except", exc |-> parsed.err, request |-> NoRequest, response |-> None]
     ELSE IF request_data.t # "dict"
       THEN [pc |-> "except", exc |-> <<"'list' object has no attribute 'get'">>,
             request |-> NoRequest, response |-> None]
     ELSE LET request_type == RequestType(request_data)
              branch == Route(request_type)
          IN [pc |-> branch,
              exc |-> <<>>,
              request |-> [request_type |-> request_type,
                           food_type |-> IF branch = "lookup"
                                         THEN DictGet(request_data, "food_type", None)
                                         ELSE None,
                           recipient_email |-> IF branch = "lookup"
                                               THEN DictGet(request_data, "recipient_email", None)
                                               ELSE None],
              response |-> IF branch = "respond" THEN InvalidResponse ELSE None]

\* What one conn.recv(1024) does: raises, returns b'' (the peer closed), or returns
\* between 1 and 1024 of the payload's first bytes.
RecvResults(payloads) ==
  {[raised |-> TRUE, data |-> NoData], [raised |-> FALSE, data |-> NoData]}
  \cup UNION {{[raised |-> FALSE, data |-> Data(p, n)] :
                   n \in {1, Min(RecvSize, TotalLen(p))}} : p \in payloads}

\* The listener handling each connection itself, before it accepts the next.
AcceptInline(c) ==
  /\ c \in pending
  /\ \A d \in Conns : pc[d] \in {"queued", "done"}
  /\ pending' = pending \ {c}
  /\ pc' = [pc EXCEPT ![c] = "recv"]
  /\ UNCHANGED <<hung, data, request, ingredients, response, exc, io, calls,
                 sessions, uncaught, arg, ret>>

\* start_server: accept a queued connection and start its handler thread.
Accept(c) ==
  /\ c \in pending
  /\ pending' = pending \ {c}
  /\ pc' = [pc EXCEPT ![c] = "recv"]
  /\ UNCHANGED <<hung, data, request, ingredients, response, exc, io, calls,
                 sessions, uncaught, arg, ret>>

\* data = conn.recv(1024) up to the branch on request_type.
Recv(c, payloads) ==
  /\ pc[c] = "recv" /\ ~hung[c]
  /\ \E r \in RecvResults(payloads) :
       LET next == IF r.raised
                     THEN [pc |-> "except", exc |-> <<"[Errno 104] Connection reset by peer">>,
                           request |-> NoRequest, response |-> None]
                   ELSE IF r.data.n = 0
                     THEN [pc |-> "finally", exc |-> <<>>, request |-> NoRequest,
                           response |-> None]
                   ELSE Dispatch(r.data)
       IN /\ io' = [io EXCEPT ![c] = Append(@, Event("recv", <<>>))]
          /\ data' = [data EXCEPT ![c] = r.data]
          /\ pc' = [pc EXCEPT ![c] = next.pc]
          /\ exc' = [exc EXCEPT ![c] = next.exc]
          /\ request' = [request EXCEPT ![c] = next.request]
          /\ response' = [response EXCEPT ![c] = next.response]
  /\ UNCHANGED <<pending, hung, ingredients, calls, sessions, uncaught, arg, ret>>

\* The lookup with the send following it whatever it returned.
LookupAlwaysSends(c, apis) ==
  /\ pc[c] = "lookup" /\ ~hung[c]
  /\ \E api \in apis :
       LET ings == get_recipe_ingredients(request[c].food_type, "SPOONACULAR_API_KEY", api)
       IN /\ calls' = [calls EXCEPT ![c] =
                         Append(@, [op |-> "lookup", query |-> request[c].food_type,
                                    returned |-> ings])]
          /\ ingredients' = [ingredients EXCEPT ![c] = ings]
  /\ pc' = [pc EXCEPT ![c] = "send"]
  /\ UNCHANGED <<pending, hung, data, request, response, exc, io, sessions, uncaught,
                 arg, ret>>

\* ingredients = email_automation.get_recipe_ingredients(...) and the if on it.
Lookup(c, apis) ==
  /\ pc[c] = "lookup" /\ ~hung[c]
  /\ \E api \in apis :
       LET ings == get_recipe_ingredients(request[c].food_type, "SPOONACULAR_API_KEY", api)
       IN /\ calls' = [calls EXCEPT ![c] =
                         Append(@, [op |-> "lookup", query |-> request[c].food_type,
                                    returned |-> ings])]
          /\ ingredients' = [ingredients EXCEPT ![c] = ings]
          /\ IF ings # <<>>
               THEN pc' = [pc EXCEPT ![c] = "send"] /\ UNCHANGED response
               ELSE /\ pc' = [pc EXCEPT ![c] = "respond"]
                    /\ response' = [response EXCEPT ![c] = NotFoundResponse]
  /\ UNCHANGED <<pending, hung, data, request, exc, io, sessions, uncaught, arg, ret>>

\* The session a mail operation leaves behind, added to those of the request.
WithSession(ss, proto, session) ==
  IF session = "none" THEN ss ELSE Append(ss, [proto |-> proto, state |-> session])

\* success, message = email_automation.send_email(...) and the response built from it.
Send(c, smtps) ==
  /\ pc[c] = "send" /\ ~hung[c]
  /\ \E fail \in smtps :
       LET subject == EmailSubject(request[c].food_type)
           body == EmailBody(request[c].food_type, ingredients[c])
           r == send_email(request[c].recipient_email, subject, body, fail)
       IN /\ calls' = [calls EXCEPT ![c] =
                         Append(@, [op |-> "send_email", to |-> request[c].recipient_email,
                                    subject |-> subject, body |-> body,
                                    returned |-> <<r.success, r.message>>])]
          /\ sessions' = [sessions EXCEPT ![c] = WithSession(@, "smtp", r.session)]
          /\ response' = [response EXCEPT ![c] =
                            RecipeResponse(r.success, r.message, ingredients[c])]
  /\ pc' = [pc EXCEPT ![c] = "respond"]
  /\ UNCHANGED <<pending, hung, data, request, ingredients, exc, io, uncaught, arg, ret>>

\* emails = email_automation.fetch_recent_emails() and the response built from it.
Fetch(c, imaps) ==
  /\ pc[c] = "fetch" /\ ~hung[c]
  /\ \E imap \in imaps :
       LET r == fetch_recent_emails("UNSEEN", DefaultLimit, imap)
       IN /\ calls' = [calls EXCEPT ![c] =
                         Append(@, [op |-> "fetch_recent_emails", returned |-> r.emails])]
          /\ sessions' = [sessions EXCEPT ![c] = WithSession(@, "imap", r.session)]
          /\ response' = [response EXCEPT ![c] = FetchResponse(r.emails)]
  /\ pc' = [pc EXCEPT ![c] = "respond"]
  /\ UNCHANGED <<pending, hung, data, request, ingredients, exc, io, uncaught, arg, ret>>

\* conn.sendall(json.dumps(response).encode('utf-8')): json.dumps may raise, and
\* so may the write.
Respond(c, writes) ==
  /\ pc[c] = "respond" /\ ~hung[c]
  /\ LET text == json_dumps(response[c])
     IN IF ~text.ok
          THEN /\ exc' = [exc EXCEPT ![c] = text.err]
               /\ pc' = [pc EXCEPT ![c] = "except"]
               /\ UNCHANGED io
          ELSE \E w \in writes :
                 IF w = "ok"
                   THEN /\ io' = [io EXCEPT ![c] = Append(@, Event("sendall", text.text))]
                        /\ pc' = [pc EXCEPT ![c] = "finally"]
                        /\ UNCHANGED exc
                   ELSE /\ io' = [io EXCEPT ![c] = Append(@, Event("sendall_raised", text.text))]
                        /\ exc' = [exc EXCEPT ![c] = <<"[Errno 32] Broken pipe">>]
                        /\ pc' = [pc EXCEPT ![c] = "except"]
  /\ UNCHANGED <<pending, hung, data, request, ingredients, response, calls, sessions,
                 uncaught, arg, ret>>

\* The except block that only logs the exception.
ExceptRespondSilent(c, writes) ==
  /\ pc[c] = "except" /\ ~hung[c]
  /\ pc' = [pc EXCEPT ![c] = "finally"]
  /\ UNCHANGED <<pending, hung, data, request, ingredients, response, exc, io, calls,
                 sessions, uncaught, arg, ret>>

\* The except block with conn.close() after it and not in a finally: a write that
\* raises leaves the handler before the close.
ExceptRespondNoClose(c, writes) ==
  /\ pc[c] = "except" /\ ~hung[c]
  /\ LET text == json_dumps(ErrorResponse(exc[c]))
     IN \E w \in writes :
          IF w = "ok"
            THEN /\ io' = [io EXCEPT ![c] = Append(@, Event("sendall", text.text))]
                 /\ pc' = [pc EXCEPT ![c] = "finally"]
                 /\ UNCHANGED uncaught
            ELSE /\ io' = [io EXCEPT ![c] = Append(@, Event("sendall_raised", text.text))]
                 /\ pc' = [pc EXCEPT ![c] = "done"]
                 /\ uncaught' = [uncaught EXCEPT ![c] = TRUE]
  /\ UNCHANGED <<pending, hung, data, request, ingredients, response, exc, calls,
                 sessions, arg, ret>>

\* except Exception as e: conn.sendall(json.dumps({success: False, message: str(e)})).
\* A write that raises here leaves the handler as an uncaught exception.
ExceptRespond(c, writes) ==
  /\ pc[c] = "except" /\ ~hung[c]
  /\ LET text == json_dumps(ErrorResponse(exc[c]))
     IN \E w \in writes :
          IF w = "ok"
            THEN /\ io' = [io EXCEPT ![c] = Append(@, Event("sendall", text.text))]
                 /\ UNCHANGED uncaught
            ELSE /\ io' = [io EXCEPT ![c] = Append(@, Event("sendall_raised", text.text))]
                 /\ uncaught' = [uncaught EXCEPT ![c] = TRUE]
  /\ pc' = [pc EXCEPT ![c] = "finally"]
  /\ UNCHANGED <<pending, hung, data, request, ingredients, response, exc, calls,
                 sessions, arg, ret>>

\* finally: conn.close()
Close(c) ==
  /\ pc[c] = "finally" /\ ~hung[c]
  /\ io' = [io EXCEPT ![c] = Append(@, Event("close", <<>>))]
  /\ pc' = [pc EXCEPT ![c] = "done"]
  /\ UNCHANGED <<pending, hung, data, request, ingredients, response, exc, calls,
                 sessions, uncaught, arg, ret>>

\* No call has a timeout: the read and the three external operations may block
\* forever.
Blocking == {"recv", "lookup", "send", "fetch"}

Hang(c) ==
  /\ pc[c] \in Blocking /\ ~hung[c]
  /\ hung' = [hung EXCEPT ![c] = TRUE]
  /\ UNCHANGED <<pending, pc, data, request, ingredients, response, exc, io, calls,
                 sessions, uncaught, arg, ret>>

\* ------------------------------------------------------------ the inputs
Recipient == Str("a@b.com")
Food == Str("pasta")

RequestObjects ==
  { Dict(<<KV("type", Str("recipe")), KV("food_type", Food), KV("recipient_email", Recipient)>>),
    Dict(<<KV("food_type", Food), KV("recipient_email", Recipient)>>),
    Dict(<<KV("type", Str("recipe"))>>),
    Dict(<<KV("type", Str("fetch_emails"))>>),
    Dict(<<KV("type", Str("delete")), KV("food_type", Food)>>),
    Dict(<<KV("type", None)>>) }

\* Document and padding lengths around the 1024 bytes one recv reads.
Lengths == {<<60, 0>>, <<60, 1000>>, <<RecvSize, 1>>, <<RecvSize + 1, 0>>}

Payloads ==
  {Payload("json", v, l[1], l[2]) : v \in RequestObjects, l \in Lengths}
  \cup {Payload("json", List(<<>>), l[1], l[2]) : l \in Lengths}
  \cup {Payload(f, None, l[1], 0) : f \in {"garbage", "badutf8"}, l \in Lengths}

IngredientNames == {"200g pasta", "1 onion"}
IngredientLists == UNION {[1..n -> IngredientNames] : n \in 0..MaxIngredients}
Apis == {ApiError, ApiResults(<<>>)} \cup {ApiResults(<<Recipe(l)>>) : l \in IngredientLists}

SmtpFailures == {"none", "connect", "starttls", "login", "sendmail"}

Imaps ==
  {Imap(u, f, 0) : u \in SUBSET (1..MaxMsgs), f \in {"none", "connect", "login", "select", "search"}}
  \cup {Imap(u, "none", b) : u \in SUBSET (1..MaxMsgs), b \in 1..MaxMsgs}

Writes == {"ok", "raise"}

Env(payloads, apis, smtps, imaps, writes) ==
  [payloads |-> payloads, apis |-> apis, smtps |-> smtps, imaps |-> imaps, writes |-> writes]

\* Everything a client and the three upstream servers may do.
FullEnv == Env(Payloads, Apis, SmtpFailures, Imaps, Writes)

\* A few of each, for the runs with several connections.
ServerEnv ==
  Env({Payload("json", Dict(<<KV("type", Str("recipe")), KV("food_type", Food),
                              KV("recipient_email", Recipient)>>), 60, 0),
       Payload("json", Dict(<<KV("type", Str("fetch_emails"))>>), 60, 0),
       Payload("garbage", None, 60, 0)},
      {ApiResults(<<Recipe(<<"1 onion">>)>>)},
      {"none", "login"},
      {Imap({}, "none", 0)},
      Writes)

\* --------------------------------------------------------- specifications
NoArg == [search_criteria |-> "UNSEEN", limit |-> DefaultLimit, imap |-> Imap({}, "none", 0)]
NoRet == [done |-> FALSE, result |-> FetchResult(<<>>, "none")]

InitHandlers ==
  /\ pc = [c \in Conns |-> "queued"]
  /\ hung = [c \in Conns |-> FALSE]
  /\ data = [c \in Conns |-> NoData]
  /\ request = [c \in Conns |-> NoRequest]
  /\ ingredients = [c \in Conns |-> <<>>]
  /\ response = [c \in Conns |-> None]
  /\ exc = [c \in Conns |-> <<>>]
  /\ io = [c \in Conns |-> <<>>]
  /\ calls = [c \in Conns |-> <<>>]
  /\ sessions = [c \in Conns |-> <<>>]
  /\ uncaught = [c \in Conns |-> FALSE]

\* One client connects.
Init ==
  /\ pending = {1}
  /\ InitHandlers
  /\ arg = NoArg /\ ret = NoRet

\* NumConns clients connect.
ServerInit ==
  /\ pending = Conns
  /\ InitHandlers
  /\ arg = NoArg /\ ret = NoRet

Step(c, env) ==
  \/ Accept(c)
  \/ Recv(c, env.payloads)
  \/ Lookup(c, env.apis)
  \/ Send(c, env.smtps)
  \/ Fetch(c, env.imaps)
  \/ Respond(c, env.writes)
  \/ ExceptRespond(c, env.writes)
  \/ Close(c)
  \/ Hang(c)

Next == \E c \in Conns : Step(c, FullEnv)
ServerNext == \E c \in Conns : Step(c, ServerEnv)

\* One connection, every input.
Spec == Init /\ [][Next]_vars

\* NumConns connections handled concurrently.
ServerSpec == ServerInit /\ [][ServerNext]_vars

\* The handler's own steps on connection c (every step but its blocking forever).
Progress(c, env) ==
  \/ Recv(c, env.payloads)
  \/ Lookup(c, env.apis)
  \/ Send(c, env.smtps)
  \/ Fetch(c, env.imaps)
  \/ Respond(c, env.writes)
  \/ ExceptRespond(c, env.writes)
  \/ Close(c)

\* One connection whose handler thread is scheduled as long as it can run.
LiveSpec == Init /\ [][Next]_vars /\ \A c \in Conns : WF_vars(Progress(c, FullEnv))

\* fetch_recent_emails(search_criteria, limit) called on its own.
Limits == 0..(MaxMsgs + 1)

FetchInit ==
  /\ pending = {}
  /\ InitHandlers
  /\ arg \in [search_criteria : {"UNSEEN", "ALL"}, limit : Limits, imap : Imaps]
  /\ ret = NoRet

CallFetch ==
  /\ ~ret.done
  /\ ret' = [done |-> TRUE,
             result |-> fetch_recent_emails(arg.search_criteria, arg.limit, arg.imap)]
  /\ UNCHANGED <<pending, pc, hung, data, request, ingredients, response, exc, io,
                 calls, sessions, uncaught, arg>>

FetchSpec == FetchInit /\ [][CallFetch]_vars

\* ------------------------------------------------------------- properties
IsAttempt(e) == e.ev \in {"sendall", "sendall_raised"}
IsWritten(e) == e.ev = "sendall"
IsRecv(e) == e.ev = "recv"
IsClose(e) == e.ev = "close"

\* The writes the handler made on the connection, and those that went through.
Attempts(c) == SelectSeq(io[c], IsAttempt)
Written(c) == SelectSeq(io[c], IsWritten)

\* The handler of c is past its writes.
PastWrites(c) == pc[c] \in {"finally", "done"}

\* The JSON texts a client is to see, token by token.
KeyTok(k) == <<"\"", k, "\"", ": ">>
StrTok(chunks) == <<"\"">> \o chunks \o <<"\"">>
BoolTok(b) == IF b THEN "true" ELSE "false"

RECURSIVE StrItemsTok(_)
StrItemsTok(items) ==
  IF items = <<>> THEN <<>>
  ELSE IF Len(items) = 1 THEN StrTok(<<items[1]>>)
  ELSE StrTok(<<items[1]>>) \o <<", ">> \o StrItemsTok(Tail(items))

InvalidWire ==
  <<"{">> \o KeyTok("success") \o <<"false", ", ">>
    \o KeyTok("message") \o StrTok(<<"Invalid request type">>) \o <<"}">>

ErrorWire(message) ==
  <<"{">> \o KeyTok("success") \o <<"false", ", ">>
    \o KeyTok("message") \o StrTok(message) \o <<"}">>

RecipeWire(success, message, ings) ==
  <<"{">> \o KeyTok("success") \o <<BoolTok(success), ", ">>
    \o KeyTok("message") \o StrTok(message) \o <<", ">>
    \o KeyTok("ingredients") \o <<"[">> \o StrItemsTok(ings) \o <<"]", "}">>

NotFoundWire == RecipeWire(FALSE, <<"No ingredients found">>, <<>>)

\* The handler of c answers with `wire`: its first write carries it, and a second
\* write happens only when the first one raised.
AnswersWith(c, wire) ==
  /\ PastWrites(c) => Attempts(c) # <<>>
  /\ Attempts(c) # <<>> => Attempts(c)[1].payload = wire
  /\ Len(Attempts(c)) > 1 => Attempts(c)[1].ev = "sendall_raised"
  /\ Len(Attempts(c)) <= 2

\* The bytes c read parse as a JSON object.
ParsedObject(c) ==
  /\ data[c].n > 0
  /\ json_loads(data[c]).ok
  /\ json_loads(data[c]).value.t = "dict"

RequestObject(c) == json_loads(data[c]).value

KnownType(v) == PyEq(v, Str("recipe")) \/ PyEq(v, Str("fetch_emails"))

\* C1 as stated: a request object whose type is absent, or present and neither
\* "recipe" nor "fetch_emails", is answered with exactly the "Invalid request type"
\* response, and no external operation is invoked.
C1_AbsentOrUnknownTypeIsInvalid ==
  \A c \in Conns :
    (ParsedObject(c) /\ (~HasKey(RequestObject(c), "type")
                          \/ ~KnownType(DictGet(RequestObject(c), "type", None))))
      => calls[c] = <<>> /\ AnswersWith(c, InvalidWire)

\* C1 amended: a request object whose type is present and neither "recipe" nor
\* "fetch_emails" is answered with exactly the "Invalid request type" response (the
\* handler's first write, and its only one unless that write raises), and no
\* external operation is invoked; an object with no type is handled as a recipe
\* request, so the recipe lookup is what it invokes first.
C1_UnknownTypeIsInvalid ==
  \A c \in Conns :
    /\ (ParsedObject(c) /\ HasKey(RequestObject(c), "type")
          /\ ~KnownType(DictGet(RequestObject(c), "type", None)))
         => calls[c] = <<>> /\ AnswersWith(c, InvalidWire)
    /\ (ParsedObject(c) /\ ~HasKey(RequestObject(c), "type"))
         => /\ pc[c] \notin {"recv", "lookup"} => calls[c] # <<>> /\ calls[c][1].op = "lookup"
            /\ \A i \in 1..Len(Attempts(c)) : Attempts(c)[i].payload # InvalidWire

\* A request with an unknown type was answered "Invalid request type" and closed.
C1_Witness ==
  \E c \in Conns :
    /\ ParsedObject(c) /\ HasKey(RequestObject(c), "type")
    /\ ~KnownType(DictGet(RequestObject(c), "type", None))
    /\ pc[c] = "done"
    /\ Written(c) = <<Event("sendall", InvalidWire)>>

\* The request of c is a fetch_emails request and the Mail Fetcher has returned.
FetchReturned(c) ==
  /\ ParsedObject(c)
  /\ PyEq(request[c].request_type, Str("fetch_emails"))
  /\ calls[c] # <<>>

\* An EmailSummary as the spec's data model has it: its id a string.
SummaryAsSpecified(e) ==
  Dict([i \in 1..Len(e.entries) |->
          IF e.entries[i].v.t = "bytes"
          THEN KV(e.entries[i].k, StrOf(e.entries[i].v.s))
          ELSE e.entries[i]])

\* C2: whatever the Mail Fetcher returned to a fetch_emails request, the response
\* written has success true and emails equal to the list returned.
C2_FetchResponseCarriesEmails ==
  \A c \in Conns :
    (FetchReturned(c) /\ PastWrites(c) /\ Attempts(c)[1].ev = "sendall")
      => LET returned == calls[c][1].returned
             asSpecified == [i \in 1..Len(returned) |-> SummaryAsSpecified(returned[i])]
         IN Written(c)[1].payload = json_dumps(FetchResponse(asSpecified)).text

\* A fetch_emails request whose fetch returned summaries has been answered.
C2_Witness ==
  \E c \in Conns :
    FetchReturned(c) /\ pc[c] = "done" /\ calls[c][1].returned # <<>> /\ Written(c) # <<>>

\* recv returned b'': the client closed without sending a byte.
ReadNothing(c) == io[c] # <<>> /\ data[c].n = 0 /\ exc[c] = <<>> /\ pc[c] # "recv"

\* C3 as stated: on every path, the zero-byte read included, the handler hands a
\* JSON object to the connection before it closes it.
C3_AlwaysAPayloadBeforeClose ==
  \A c \in Conns : pc[c] = "done" => Attempts(c) # <<>>

\* C3 amended: when the read returns at least one byte or raises, the handler hands
\* a JSON object to the connection before it closes it, and the object is written
\* unless sendall itself raises; when the client sends zero bytes, the handler
\* closes the connection without writing anything.
C3_PayloadBeforeCloseUnlessEmptyRead ==
  \A c \in Conns :
    pc[c] = "done" =>
      /\ io[c][Len(io[c])].ev = "close"
      /\ ReadNothing(c) => io[c] = <<Event("recv", <<>>), Event("close", <<>>)>>
      /\ ~ReadNothing(c) =>
           /\ Attempts(c) # <<>>
           /\ (\A i \in 1..Len(Attempts(c)) : Attempts(c)[i].ev = "sendall") => Len(Written(c)) = 1
           /\ \A i \in 1..Len(Attempts(c)) :
                /\ Attempts(c)[i].payload[1] = "{"
                /\ Attempts(c)[i].payload[Len(Attempts(c)[i].payload)] = "}"

\* A connection whose request failed to parse was answered and closed.
C3_Witness ==
  \E c \in Conns :
    /\ pc[c] = "done" /\ data[c].n > 0 /\ ~json_loads(data[c]).ok
    /\ Len(Written(c)) = 1

IoInOrder(c) ==
  /\ Len(SelectSeq(io[c], IsRecv)) <= 1
  /\ Len(SelectSeq(io[c], IsClose)) <= 1
  /\ io[c] # <<>> => io[c][1].ev = "recv"
  /\ \A i \in 1..Len(io[c]) : io[c][i].ev = "close" => i = Len(io[c])
  /\ pc[c] = "done" =>
       Len(SelectSeq(io[c], IsRecv)) = 1 /\ Len(SelectSeq(io[c], IsClose)) = 1

LookupReturned(c) == calls[c] # <<>> /\ calls[c][1].op = "lookup"

\* C5: when the Recipe Lookup of a recipe request returns an empty list, the
\* response is exactly the "No ingredients found" response with an empty
\* ingredients list, and the Mail Sender is never invoked.
C5_NothingFoundNothingSent ==
  \A c \in Conns :
    (LookupReturned(c) /\ calls[c][1].returned = <<>>)
      => Len(calls[c]) = 1 /\ pc[c] # "send" /\ AnswersWith(c, NotFoundWire)

\* A recipe request whose lookup returned nothing was answered and closed.
C5_Witness ==
  \E c \in Conns :
    /\ LookupReturned(c) /\ calls[c][1].returned = <<>>
    /\ pc[c] = "done"
    /\ Written(c) = <<Event("sendall", NotFoundWire)>>

\* The lines of a text: its chunks split at the newlines.
RECURSIVE LinesOf(_)
LinesOf(chunks) ==
  IF \A i \in 1..Len(chunks) : chunks[i] # "\n" THEN <<chunks>>
  ELSE LET i == CHOOSE j \in 1..Len(chunks) :
                  chunks[j] = "\n" /\ \A k \in 1..(j - 1) : chunks[k] # "\n"
       IN <<SubSeq(chunks, 1, i - 1)>> \o LinesOf(SubSeq(chunks, i + 1, Len(chunks)))

\* What follows the blank line that ends the body's first line.
IngredientSection(body) ==
  LET i == CHOOSE j \in 1..(Len(body) - 1) :
             /\ body[j] = "\n" /\ body[j + 1] = "\n"
             /\ \A k \in 1..(j - 1) : body[k] # "\n"
  IN SubSeq(body, i + 2, Len(body))

\* C6: when the Recipe Lookup returns a non-empty list L, the Mail Sender is invoked
\* once, after the lookup, with a body whose ingredient section is L joined by
\* newlines in order; the response carries ingredients = L and the success and
\* message of that send.
C6_FoundIngredientsAreSentAndReturned ==
  \A c \in Conns :
    (LookupReturned(c) /\ calls[c][1].returned # <<>>)
      => LET L == calls[c][1].returned
         IN IF pc[c] = "send" THEN Len(calls[c]) = 1
            ELSE /\ Len(calls[c]) = 2
                 /\ calls[c][2].op = "send_email"
                 /\ LinesOf(IngredientSection(calls[c][2].body)) = [i \in 1..Len(L) |-> <<L[i]>>]
                 /\ AnswersWith(c, RecipeWire(calls[c][2].returned[1], calls[c][2].returned[2], L))

\* A send that failed: the response written says so and still carries two
\* ingredients.
C6_Witness ==
  \E c \in Conns :
    /\ LookupReturned(c) /\ Len(calls[c][1].returned) >= 2
    /\ pc[c] = "done" /\ Len(calls[c]) = 2
    /\ ~calls[c][2].returned[1]
    /\ Len(Written(c)) = 1

\* C7 as stated: a payload longer than 1024 bytes never parses; it is answered with
\* the failure response and no external operation is performed.
C7_LongPayloadNeverParses ==
  \A c \in Conns :
    (data[c].n > 0 /\ TotalLen(data[c].payload) > RecvSize)
      => /\ data[c].n <= RecvSize
         /\ ~json_loads(data[c]).ok
         /\ calls[c] = <<>>
         /\ AnswersWith(c, ErrorWire(json_loads(data[c]).err))

\* C7 amended: a payload whose JSON document (an object or array, not counting
\* whitespace after it) is longer than 1024 bytes is cut at 1024 bytes or less,
\* its parse fails, the handler answers {success: false, message: <error text>} (its first write, and the only
\* one unless that write raises) and performs no external operation, and no
\* exception leaves the handler unless the write in the except block raises.  A
\* payload longer than 1024 bytes only by whitespace after a complete document of
\* at most 1024 bytes parses when the read returns the whole document.
C7_LongDocumentFailsToParse ==
  \A c \in Conns :
    /\ (data[c].n > 0 /\ data[c].payload.docLen > RecvSize)
         => /\ data[c].n <= RecvSize
            /\ ~json_loads(data[c]).ok
            /\ calls[c] = <<>>
            /\ pc[c] \in {"except", "finally", "done"}
            /\ AnswersWith(c, ErrorWire(json_loads(data[c]).err))
            /\ uncaught[c] => Attempts(c)[Len(Attempts(c))].ev = "sendall_raised"
    /\ (data[c].payload.form = "json" /\ data[c].n >= data[c].payload.docLen /\ data[c].n > 0)
         => json_loads(data[c]).ok

\* A document of more than 1024 bytes was read, cut, and answered with the failure.
C7_Witness ==
  \E c \in Conns :
    /\ data[c].n = RecvSize /\ data[c].payload.docLen > RecvSize
    /\ data[c].payload.form = "json"
    /\ pc[c] = "done" /\ Len(Written(c)) = 1

\* The last k elements of seq (all of it when it has fewer).
LastN(seq, k) == SubSeq(seq, Len(seq) - Min(k, Len(seq)) + 1, Len(seq))

\* C8: when every step of the session succeeds, fetch_recent_emails(criterion,
\* limit) with limit >= 0 returns the summaries of the last `limit` identifiers of
\* the search result, in order: min(limit, n) of them.
C8_FetchReturnsLastLimit ==
  (ret.done /\ arg.imap.fail = "none" /\ arg.imap.bad = 0)
    => LET ids == Search(arg.imap, arg.search_criteria)
           last == LastN(ids, arg.limit)
       IN /\ Len(ret.result.emails) = Min(arg.limit, Len(ids))
          /\ ret.result.emails = [i \in 1..Len(last) |-> EmailSummary(last[i])]

HandlerState(c) ==
  <<pc[c], hung[c], data[c], request[c], ingredients[c], response[c], exc[c], io[c],
    calls[c], sessions[c], uncaught[c]>>

Ops(c) == [i \in 1..Len(calls[c]) |-> calls[c][i].op]
Returns(c) == [i \in 1..Len(calls[c]) |-> calls[c][i].returned]
WriteOutcomes(c) == [i \in 1..Len(Attempts(c)) |-> Attempts(c)[i].ev]

\* A handler blocked forever stops neither the listener nor another handler.
OthersRunOn ==
  \A c, d \in Conns :
    (c # d /\ hung[c]) =>
      /\ d \in pending => ENABLED Accept(d)
      /\ (pc[d] \notin {"queued", "done"} /\ ~hung[d]) => ENABLED Progress(d, ServerEnv)

\* Two handlers given the same request, the same results of their external calls
\* and the same outcomes of their writes did the same on their connections.
SameInputsSameOutput ==
  \A c, d \in Conns :
    (/\ pc[c] = "done" /\ pc[d] = "done"
     /\ data[c] = data[d]
     /\ Ops(c) = Ops(d)
     /\ Returns(c) = Returns(d)
     /\ WriteOutcomes(c) = WriteOutcomes(d))
      => io[c] = io[d]

\* C9: with connections handled concurrently, a handler blocked forever in an
\* external call stops neither the listener from accepting nor another handler
\* from running; a step of one handler changes nothing of another's, and what a
\* handler does on its connection depends on its own request and results alone.
C9_HandlersAreIndependent ==
  /\ [](OthersRunOn /\ SameInputsSameOutput)
  /\ [][\A c, d \in Conns :
          (c # d /\ HandlerState(c)' # HandlerState(c)) => HandlerState(d)' = HandlerState(d)]_vars

\* One handler is blocked forever in an external call and another connection has
\* been answered and closed.
C9_Witness ==
  \E c, d \in Conns :
    /\ c # d /\ hung[c] /\ pc[c] \in {"lookup", "send", "fetch"}
    /\ pc[d] = "done" /\ Written(d) # <<>>

\* C10: once an operation of a request has returned, every mail session it opened
\* has been torn down.
C10_SessionsAreTornDown ==
  \A c \in Conns : \A i \in 1..Len(sessions[c]) : sessions[c][i].state = "closed"

====
